---- MODULE Spec2Model ----
(***************************************************************************)
(* The incremental transcript pipeline of the live captioning tool:        *)
(*   - Stream Ingest   (src/hooks/useSpeechRecognition.ts)                 *)
(*   - Velocity, Refinement and Translation stages (src/App.tsx)           *)
(* Strings are sequences of one-character strings.  Every handler of the   *)
(* program is one action; the re-render and the effects a handler's state  *)
(* change causes are part of that action.                                  *)
(***************************************************************************)
EXTENDS Integers, Sequences, FiniteSets, Bags, TLC

VARIABLES
    status,                 \* useSpeechRecognition: status / statusRef
    listening,              \* the recognizer has been started and has not ended
    text,                   \* useSpeechRecognition: text (the source buffer)
    interimText,            \* useSpeechRecognition: interimText
    restartCount,           \* useSpeechRecognition: restartCount.current
    restartTimers,          \* pending 500ms timers of onerror that call recognition.start()
    silenceTimer,           \* silenceTimer.current is pending
    refinedRef,             \* App: refinedRef.current
    processedRef,           \* App: processedRef.current
    translatedText,         \* App: translatedText
    refiningInProgressRef,  \* App: refiningInProgressRef.current
    translatingRef,         \* App: translatingRef.current
    refineCalls,            \* bag of refinement calls awaiting the remote capability
    transCalls,             \* bag of translation calls awaiting the remote capability
    refineTimeout,          \* refineTimeoutRef.current is pending
    retryTimeout,           \* retryTimeoutRef.current is pending
    sinceLastRequest,       \* Date.now() - lastRequestTimeRef.current, saturated
    velocityRef,            \* App: velocityRef.current
    lastTextLengthRef,      \* App: lastTextLengthRef.current
    aiError,                \* App: aiError is set
    isBatchMode,            \* App: isBatchMode
    sampling,               \* the velocity interval: ms since setInterval, ms since the
                            \* last sample (or the start of recording)
    vault,                  \* localStorage: the data stored for one session of the vault,
                            \* and whether that session is the active one
    uploads,                \* bag of audio uploads: awaiting the transcription, or
                            \* holding the 1000ms timer that follows it
    issued,                 \* history: refinement calls begun, whether the last one threw
                            \* with retries left, the highest source index translated,
                            \* automatic restarts since the last result or user start
    lateCommit              \* history: last unit Ingest committed while a refinement call was in flight

vars == <<status, listening, text, interimText, restartCount, restartTimers, silenceTimer,
          refinedRef, processedRef, translatedText, refiningInProgressRef,
          translatingRef, refineCalls, transCalls, refineTimeout, retryTimeout,
          sinceLastRequest, velocityRef, lastTextLengthRef, aiError, isBatchMode,
          sampling, vault, uploads, issued, lateCommit>>

----------------------------------------------------------------------------
(* Program constants *)

MAX_READABLE_LINE_LENGTH == 160
SOFT_BREAK_THRESHOLD == 80
RefineTriggerPending == 20
RefineThresholdSlow == 40
RefineThresholdFast == 120
RefineVelocityLimit == 30
minIntervalRef == 500
RetryCount == 3
RetryBaseDelay == 1000
MaxRestarts == 3
SampleInterval == 1000

(* Bounds of the model *)

MaxTextLen == 90
MaxTranslatedLen == 79
MaxRefineCalls == 2
MaxInFlight == 2
TickMs == 500
WordLen == 41
HalfLen == 20
OutLen == 26
MaxAutoRestarts == 4
MaxPendingRestarts == 2
MaxUploads == 2
MaxSampleGap == 2000

----------------------------------------------------------------------------
(* Characters and strings *)

NL == "\n"
SP == " "
Whitespace == {SP, NL, "\t"}
Terminators == {".", "!", "?"}

Lower == <<"a","b","c","d","e","f","g","h","i","j","k","l","m",
           "n","o","p","q","r","s","t","u","v","w","x","y","z">>
Upper == <<"A","B","C","D","E","F","G","H","I","J","K","L","M",
           "N","O","P","Q","R","S","T","U","V","W","X","Y","Z">>

Min(a, b) == IF a <= b THEN a ELSE b
Max(a, b) == IF a >= b THEN a ELSE b

Rep(c, n) == [i \in 1..n |-> c]

\* String.prototype.toUpperCase on one character
toUpperCase(c) ==
    IF \E i \in 1..26 : Lower[i] = c
    THEN Upper[CHOOSE i \in 1..26 : Lower[i] = c]
    ELSE c

\* String.prototype.slice(a, b) for non-negative a, b
Slice(s, a, b) ==
    LET lo == Min(Max(a, 0), Len(s))
        hi == Min(Max(b, 0), Len(s))
    IN  IF lo >= hi THEN <<>> ELSE SubSeq(s, lo + 1, hi)

\* index of the last character of s[1..i] that is not whitespace (0 if none)
RECURSIVE LastNonSpace(_, _)
LastNonSpace(s, i) ==
    IF i = 0 \/ s[i] \notin Whitespace THEN i ELSE LastNonSpace(s, i - 1)

\* index of the first character of s[i..] that is not whitespace (Len(s) + 1 if none)
RECURSIVE FirstNonSpace(_, _)
FirstNonSpace(s, i) ==
    IF i > Len(s) \/ s[i] \notin Whitespace THEN i ELSE FirstNonSpace(s, i + 1)

\* String.prototype.trimEnd
trimEnd(s) == SubSeq(s, 1, LastNonSpace(s, Len(s)))

\* String.prototype.trim
trim(s) == SubSeq(s, FirstNonSpace(s, 1), LastNonSpace(s, Len(s)))

\* String.prototype.endsWith
endsWith(s, suffix) ==
    /\ Len(suffix) <= Len(s)
    /\ SubSeq(s, Len(s) - Len(suffix) + 1, Len(s)) = suffix

\* String.prototype.includes
includes(s, sub) ==
    \E i \in 0..(Len(s) - Len(sub)) : SubSeq(s, i + 1, i + Len(sub)) = sub

\* p is the beginning of s
IsPrefix(p, s) == Len(p) <= Len(s) /\ SubSeq(s, 1, Len(p)) = p

\* variant of capitalize: the first character is left as it is
capitalizeNone(s) == s

\* capitalize: s.charAt(0).toUpperCase() + s.slice(1)
capitalize(s) ==
    IF s = <<>> THEN <<>> ELSE <<toUpperCase(s[1])>> \o Tail(s)

----------------------------------------------------------------------------
(* Stream Ingest: segmentation of a final chunk *)

\* last index of the run of whitespace that starts at i (i - 1 if none)
RECURSIVE SpaceRunEnd(_, _)
SpaceRunEnd(s, i) ==
    IF i <= Len(s) /\ s[i] \in Whitespace THEN SpaceRunEnd(s, i + 1) ELSE i - 1

\* last index of the run of non-terminators that starts at i (i - 1 if none)
RECURSIVE TextRunEnd(_, _)
TextRunEnd(s, i) ==
    IF i <= Len(s) /\ s[i] \notin Terminators THEN TextRunEnd(s, i + 1) ELSE i - 1

\* chunk.match(/([^.!?]+[.!?]\s*|[^.!?]+$)/g), scanning from index i
RECURSIVE sentenceRegex(_, _)
sentenceRegex(s, i) ==
    IF i > Len(s) THEN <<>>
    ELSE IF s[i] \in Terminators THEN sentenceRegex(s, i + 1)
    ELSE LET j == TextRunEnd(s, i)
         IN  IF j = Len(s) THEN <<SubSeq(s, i, j)>>
             ELSE LET k == SpaceRunEnd(s, j + 2)
                  IN  <<SubSeq(s, i, k)>> \o sentenceRegex(s, k + 1)

\* index of the last newline of s[1..i] (0 if none)
RECURSIVE LastNewline(_, _)
LastNewline(s, i) ==
    IF i = 0 \/ s[i] = NL THEN i ELSE LastNewline(s, i - 1)

\* lines[lines.length - 1] || '' for lines = newText.split('\n')
lastLine(newText) ==
    SubSeq(newText, LastNewline(newText, Len(newText)) + 1, Len(newText))

endsInPunctuation(line) == line # <<>> /\ line[Len(line)] \in Terminators

shouldBreak(line) ==
    \/ endsInPunctuation(line) /\ Len(line) > SOFT_BREAK_THRESHOLD
    \/ Len(line) > MAX_READABLE_LINE_LENGTH

separator(newText) ==
    IF newText = <<>> THEN <<>>
    ELSE IF shouldBreak(lastLine(newText)) THEN <<NL>> ELSE <<SP>>

\* variant of AppendSentence: the sentence is assigned, not appended
AppendSentenceAssigns(newText, s) ==
    LET sentence == capitalize(trim(s))
    IN  IF sentence = <<>> THEN newText ELSE sentence

\* the body of matches.forEach for one match s
AppendSentence(newText, s) ==
    LET sentence == capitalize(trim(s))
    IN  IF sentence = <<>> THEN newText
        ELSE newText \o separator(newText) \o sentence

RECURSIVE forEachMatch(_, _)
forEachMatch(newText, matches) ==
    IF matches = <<>> THEN newText
    ELSE forEachMatch(AppendSentence(newText, Head(matches)), Tail(matches))

\* the setText updater of recognition.onresult for a truthy finalChunk
Ingest(prev, finalChunk) ==
    LET chunk == trim(finalChunk)
        found == sentenceRegex(chunk, 1)
        matches == IF found = <<>> THEN <<chunk>> ELSE found
    IN  IF chunk = <<>> THEN prev
        ELSE forEachMatch(trimEnd(prev), matches)

\* variant of SilenceUpdate: trailing whitespace is trimmed and nothing is appended
SilenceUpdateTrims(prev) == trimEnd(prev)

\* the setText updater of the silence timer
SilenceUpdate(prev) ==
    LET trimmed == trimEnd(prev)
    IN  IF Len(trimmed) > 0 /\ trimmed[Len(trimmed)] \notin (Terminators \cup {NL})
        THEN trimmed \o <<".", NL, NL>>
        ELSE IF Len(trimmed) > 0 /\ ~endsWith(trimmed, <<NL, NL>>)
        THEN trimmed \o <<NL, NL>>
        ELSE prev

----------------------------------------------------------------------------
(* Inputs and remote responses *)

\* finalized chunks the recognizer delivers
FinalChunks ==
    { Rep("a", WordLen),
      <<SP>> \o Rep("b", HalfLen) \o <<".", SP>> \o Rep("c", HalfLen) \o <<"?">>,
      <<SP>> }

\* the final chunks of the end-to-end scenarios
HelloWorld ==
    <<"h", "e", "l", "l", "o", " ", "w", "o", "r", "l", "d">>
ThisIsATest ==
    <<"t", "h", "i", "s", " ", "i", "s", " ", "a", " ", "t", "e", "s", "t",
      ".">>
HelloDotWorld ==
    <<"h", "e", "l", "l", "o", ".", " ", "w", "o", "r", "l", "d", ".">>
ScenarioChunks == {HelloWorld, ThisIsATest, HelloDotWorld}

\* ev.error of the SpeechRecognitionErrorEvent
ErrorCodes == {"no-speech", "network", "not-allowed"}

\* interim fragments the recognizer delivers
InterimChunks == { <<"h", "m">> }

\* the fragments of an utterance in progress, each event carrying the whole fragment
InterimFragments == { <<>>, <<"h", "i">>, <<"h", "i", SP, "y", "o">> }

\* res.text of the text-correction capability for a submitted chunk
RefineResponses(chunk) == { <<>>, <<SP>>, <<"O", "k", ".">>, chunk \o <<".">> }

\* res.text of the translation capability
TranslateResponses == { <<>>, <<SP>>, Rep("x", OutLen) }

\* transcribeResponse.text of the audio transcription capability
UploadResponses == { <<>>, <<"h", "i">> }

AudioFilePrefix ==
    <<NL, "[", "A", "U", "D", "I", "O", SP, "F", "I", "L", "E", "]", ":", SP>>

BatchSeparator ==
    <<NL, NL, "-", "-", "-", SP, "B", "A", "T", "C", "H", SP,
      "P", "R", "O", "C", "E", "S", "S", "E", "D", SP, "-", "-", "-", NL>>

----------------------------------------------------------------------------
(* Effects that re-run when their dependencies change *)

\* variant of SilenceEffect: the timer is armed whatever the status and the fragment
SilenceEffectAlways(nt, ni, ns) ==
    silenceTimer' = (nt # text \/ ni # interimText \/ ns # status \/ silenceTimer)

\* useSpeechRecognition effect on [text, interimText, status]
SilenceEffect(nt, ni, ns) ==
    silenceTimer' =
        IF nt = text /\ ni = interimText /\ ns = status
        THEN silenceTimer
        ELSE (ns = "RECORDING" /\ ni = <<>>)

\* App effect on [text, refineEnglishTranscript, performTranslation, isBatchMode];
\* curRefine and curRetry are the timers as the handler left them
AutoTriggerEffect(nt, nb, curRefine, curRetry) ==
    IF nt = text /\ nb = isBatchMode
    THEN /\ refineTimeout' = curRefine
         /\ retryTimeout' = curRetry
    ELSE /\ refineTimeout' =
               (/\ ~nb
                /\ ~refiningInProgressRef'
                /\ Len(nt) > refinedRef' + RefineTriggerPending)
         /\ retryTimeout' =
               (/\ ~nb
                /\ ~translatingRef'
                /\ refinedRef' > processedRef')

\* App effect on [text.length, isRecording]: clearInterval, then setInterval while
\* recording
VelocityEffect(nt, ns) ==
    sampling' =
        IF Len(nt) = Len(text) /\ (ns = "RECORDING") = (status = "RECORDING")
        THEN sampling
        ELSE [age |-> 0,
              gap |-> IF (ns = "RECORDING") = (status = "RECORDING")
                      THEN sampling.gap ELSE 0]

InFlightIncremental(calls) == {c \in BagToSet(calls) : ~c.batch}

----------------------------------------------------------------------------
(* Initial state: mounted, one empty session *)

Init ==
    /\ status = "IDLE"
    /\ listening = FALSE
    /\ text = <<>>
    /\ interimText = <<>>
    /\ restartCount = 0
    /\ restartTimers = 0
    /\ silenceTimer = FALSE
    /\ refinedRef = 0
    /\ processedRef = 0
    /\ translatedText = <<>>
    /\ refiningInProgressRef = FALSE
    /\ translatingRef = FALSE
    /\ refineCalls = EmptyBag
    /\ transCalls = EmptyBag
    /\ refineTimeout = FALSE
    /\ retryTimeout = FALSE
    /\ sinceLastRequest = minIntervalRef
    /\ velocityRef = 0
    /\ lastTextLengthRef = 0
    /\ aiError = FALSE
    /\ isBatchMode = FALSE
    /\ sampling = [age |-> 0, gap |-> 0]
    /\ vault = [stored |-> <<>>, active |-> TRUE]
    /\ uploads = EmptyBag
    /\ issued = [refine |-> 0, early |-> FALSE, high |-> 0, restarts |-> 0]
    /\ lateCommit = <<>>

recVars == <<status, listening, restartCount, restartTimers>>
refineVars == <<refinedRef, refiningInProgressRef, refineCalls>>
transVars == <<processedRef, translatedText, translatingRef, transCalls,
               sinceLastRequest, aiError>>
timerVars == <<refineTimeout, retryTimeout>>
velocityVars == <<velocityRef, lastTextLengthRef>>
otherVars == <<uploads, sampling, vault>>

----------------------------------------------------------------------------
(* Stream Ingest *)

startRecording ==
    /\ status' = "RECORDING"
    /\ listening' = TRUE
    /\ restartCount' = 0
    /\ issued' = [issued EXCEPT !.restarts = 0]
    /\ SilenceEffect(text, interimText, "RECORDING")
    /\ VelocityEffect(text, "RECORDING")
    /\ UNCHANGED <<restartTimers, text, interimText, refineVars, transVars, timerVars,
                   velocityVars, uploads, vault, isBatchMode, lateCommit>>

pauseRecording ==
    /\ status' = "PAUSED"
    /\ SilenceEffect(text, interimText, "PAUSED")
    /\ VelocityEffect(text, "PAUSED")
    /\ UNCHANGED <<listening, restartCount, restartTimers, text, interimText, refineVars,
                   transVars, timerVars, velocityVars, uploads, vault, isBatchMode, issued, lateCommit>>

stopRecording ==
    /\ status' = "STOPPED"
    /\ interimText' = <<>>
    /\ SilenceEffect(text, <<>>, "STOPPED")
    /\ VelocityEffect(text, "STOPPED")
    /\ UNCHANGED <<listening, restartCount, restartTimers, text, refineVars, transVars,
                   timerVars, velocityVars, uploads, vault, isBatchMode, issued, lateCommit>>

\* recognition.onend: recognition.start() while RECORDING, otherwise the recognizer
\* stays ended
onend ==
    /\ listening
    /\ status = "RECORDING" => issued.restarts < MaxAutoRestarts
    /\ listening' = (status = "RECORDING")
    /\ issued' = IF status = "RECORDING"
                  THEN [issued EXCEPT !.restarts = @ + 1] ELSE issued
    /\ UNCHANGED <<status, restartCount, restartTimers, text, interimText, silenceTimer,
                   refineVars, transVars, timerVars, velocityVars, otherVars, isBatchMode,
                   lateCommit>>

\* recognition.onerror: while RECORDING and restartCount.current < 3 the counter is
\* raised and recognition.start() is scheduled 500ms later; ev.error only selects
\* the message
onerror(error) ==
    LET restart == status = "RECORDING" /\ restartCount < MaxRestarts
    IN  /\ listening
        /\ restart => restartTimers < MaxPendingRestarts
        /\ restartCount' = IF restart THEN restartCount + 1 ELSE restartCount
        /\ restartTimers' = IF restart THEN restartTimers + 1 ELSE restartTimers
        /\ UNCHANGED <<status, listening, text, interimText, silenceTimer, refineVars,
                       transVars, timerVars, velocityVars, otherVars, isBatchMode, issued,
                       lateCommit>>

\* a timer of onerror fires: try { recognition.start() } catch (e) {}, which throws
\* when the recognizer is already started
RestartTimerFires ==
    /\ restartTimers > 0
    /\ ~listening => issued.restarts < MaxAutoRestarts
    /\ restartTimers' = restartTimers - 1
    /\ listening' = TRUE
    /\ issued' = IF listening THEN issued ELSE [issued EXCEPT !.restarts = @ + 1]
    /\ UNCHANGED <<status, restartCount, text, interimText, silenceTimer, refineVars,
                   transVars, timerVars, velocityVars, otherVars, isBatchMode, lateCommit>>

\* the last unit the segmentation of finalChunk commits
LastUnit(finalChunk) ==
    LET chunk == trim(finalChunk)
        found == sentenceRegex(chunk, 1)
        matches == IF found = <<>> THEN <<chunk>> ELSE found
    IN  capitalize(trim(matches[Len(matches)]))

\* a variant of onresult that appends the interim chunk to the fragment
onresultAppendsInterim(finalChunk, interimChunk) ==
    LET nt == IF finalChunk # <<>> THEN Ingest(text, finalChunk) ELSE text
        ni == IF finalChunk # <<>> THEN <<>> ELSE interimText \o interimChunk
    IN  /\ listening
        /\ Len(nt) <= MaxTextLen
        /\ restartCount' = 0
        /\ text' = nt
        /\ interimText' = ni
        /\ SilenceEffect(nt, ni, status)
        /\ UNCHANGED <<refineVars, transVars>>
        /\ AutoTriggerEffect(nt, isBatchMode, refineTimeout, retryTimeout)
        /\ lateCommit' = IF nt # text /\ refineCalls # EmptyBag
                         THEN LastUnit(finalChunk) ELSE lateCommit
        /\ issued' = [issued EXCEPT !.restarts = 0]
        /\ VelocityEffect(nt, status)
        /\ UNCHANGED <<status, listening, restartTimers, velocityVars, uploads, vault, isBatchMode>>

\* recognition.onresult with the concatenated final and interim transcripts
onresult(finalChunk, interimChunk) ==
    LET nt == IF finalChunk # <<>> THEN Ingest(text, finalChunk) ELSE text
        ni == IF finalChunk # <<>> THEN <<>> ELSE interimChunk
    IN  /\ listening
        /\ Len(nt) <= MaxTextLen
        /\ restartCount' = 0
        /\ text' = nt
        /\ interimText' = ni
        /\ SilenceEffect(nt, ni, status)
        /\ UNCHANGED <<refineVars, transVars>>
        /\ AutoTriggerEffect(nt, isBatchMode, refineTimeout, retryTimeout)
        /\ lateCommit' = IF nt # text /\ refineCalls # EmptyBag
                         THEN LastUnit(finalChunk) ELSE lateCommit
        /\ issued' = [issued EXCEPT !.restarts = 0]
        /\ VelocityEffect(nt, status)
        /\ UNCHANGED <<status, listening, restartTimers, velocityVars, uploads, vault, isBatchMode>>

\* the silence timer fires after 1200ms
SilenceCommit ==
    LET nt == SilenceUpdate(text)
    IN  /\ silenceTimer
        /\ Len(nt) <= MaxTextLen
        /\ text' = nt
        /\ silenceTimer' = (nt # text /\ status = "RECORDING" /\ interimText = <<>>)
        /\ UNCHANGED <<refineVars, transVars>>
        /\ AutoTriggerEffect(nt, isBatchMode, refineTimeout, retryTimeout)
        /\ VelocityEffect(nt, status)
        /\ UNCHANGED <<recVars, interimText, velocityVars, uploads, vault, isBatchMode, issued,
                       lateCommit>>

----------------------------------------------------------------------------
(* Velocity Tracker *)

\* time passes while recording, up to the moment the interval callback is due
IntervalTick ==
    /\ status = "RECORDING"
    /\ sampling.age < SampleInterval
    /\ sampling.gap < MaxSampleGap
    /\ sampling' = [age |-> Min(sampling.age + TickMs, SampleInterval),
                    gap |-> Min(sampling.gap + TickMs, MaxSampleGap)]
    /\ UNCHANGED <<recVars, text, interimText, silenceTimer, refineVars, transVars,
                   timerVars, velocityVars, uploads, vault, isBatchMode, issued, lateCommit>>

\* the interval callback, 1000ms after the effect last ran or the callback last fired
VelocitySample ==
    /\ status = "RECORDING"
    /\ sampling.age >= SampleInterval
    /\ velocityRef' = Len(text) - lastTextLengthRef
    /\ lastTextLengthRef' = Len(text)
    /\ sampling' = [age |-> 0, gap |-> 0]
    /\ UNCHANGED <<recVars, text, interimText, silenceTimer, refineVars, transVars,
                   timerVars, uploads, vault, isBatchMode, issued, lateCommit>>

----------------------------------------------------------------------------
(* Refinement Stage *)

\* variant of BeginRefine: the call is made without raising refiningInProgressRef
BeginRefineUnguarded(unrefinedChunk) ==
    /\ UNCHANGED refiningInProgressRef
    /\ refineCalls' = refineCalls (+) SetToBag({[chunk |-> unrefinedChunk,
                                                 retries |-> RetryCount,
                                                 delay |-> RetryBaseDelay,
                                                 stale |-> FALSE]})
    /\ issued' = [issued EXCEPT !.refine = @ + 1]
    /\ lateCommit' = <<>>

\* refiningInProgressRef.current = true, then the remote call through retryWithBackoff
BeginRefine(unrefinedChunk) ==
    /\ refiningInProgressRef' = TRUE
    /\ refineCalls' = refineCalls (+) SetToBag({[chunk |-> unrefinedChunk,
                                                 retries |-> RetryCount,
                                                 delay |-> RetryBaseDelay,
                                                 stale |-> FALSE]})
    /\ issued' = [issued EXCEPT !.refine = @ + 1]
    /\ lateCommit' = <<>>

\* variant of minThreshold: the threshold does not follow the velocity
minThresholdFixed == RefineThresholdSlow

minThreshold == IF velocityRef > RefineVelocityLimit THEN RefineThresholdFast
                                                     ELSE RefineThresholdSlow

\* refineEnglishTranscript up to its await
refineEnglishTranscript ==
    LET raw == text
        unrefinedChunk == trim(Slice(raw, refinedRef, Len(raw)))
    IN  IF refiningInProgressRef \/ Len(unrefinedChunk) < minThreshold
        THEN UNCHANGED <<refiningInProgressRef, refineCalls, issued, lateCommit>>
        ELSE BeginRefine(unrefinedChunk)

\* the 1500ms debounce timer of the auto-trigger effect fires
RefineTimerFires ==
    /\ refineTimeout
    /\ issued.refine < MaxRefineCalls
    /\ refineTimeout' = FALSE
    /\ refineEnglishTranscript
    /\ UNCHANGED <<recVars, text, interimText, silenceTimer, refinedRef, transVars,
                   retryTimeout, velocityVars, otherVars, isBatchMode>>

\* variant of RefineRateLimited: the retry does not use up one of the retries
RefineRateLimitedForever(c) ==
    /\ c \in BagToSet(refineCalls)
    /\ c.retries > 0
    /\ refineCalls' = (refineCalls (-) SetToBag({c}))
                      (+) SetToBag({[c EXCEPT !.delay = @ * 2]})
    /\ UNCHANGED <<recVars, text, interimText, silenceTimer, refinedRef,
                   refiningInProgressRef, transVars, timerVars, velocityVars, otherVars,
                   isBatchMode, issued, lateCommit>>

\* retryWithBackoff: the attempt failed with a 429 and retries remain
RefineRateLimited(c) ==
    /\ c \in BagToSet(refineCalls)
    /\ c.retries > 0
    /\ refineCalls' = (refineCalls (-) SetToBag({c}))
                      (+) SetToBag({[c EXCEPT !.retries = @ - 1, !.delay = @ * 2]})
    /\ UNCHANGED <<recVars, text, interimText, silenceTimer, refinedRef,
                   refiningInProgressRef, transVars, timerVars, velocityVars, otherVars,
                   isBatchMode, issued, lateCommit>>

\* variant of RefineFail: the tail that failed is given up as if it were refined
RefineFailSkips(c, isQuota) ==
    /\ c \in BagToSet(refineCalls)
    /\ isQuota => c.retries = 0
    /\ refineCalls' = refineCalls (-) SetToBag({c})
    /\ refiningInProgressRef' = FALSE
    /\ refinedRef' = Len(text)
    /\ lateCommit' = <<>>
    /\ issued' = [issued EXCEPT !.early = c.retries > 0]
    /\ UNCHANGED <<recVars, text, interimText, silenceTimer, transVars,
                   timerVars, velocityVars, otherVars, isBatchMode>>

\* retryWithBackoff throws: catch logs, finally clears the flag
RefineFail(c, isQuota) ==
    /\ c \in BagToSet(refineCalls)
    /\ isQuota => c.retries = 0
    /\ refineCalls' = refineCalls (-) SetToBag({c})
    /\ refiningInProgressRef' = FALSE
    /\ lateCommit' = <<>>
    /\ issued' = [issued EXCEPT !.early = c.retries > 0]
    /\ UNCHANGED <<recVars, text, interimText, silenceTimer, refinedRef, transVars,
                   timerVars, velocityVars, otherVars, isBatchMode>>

\* variant of retryWithBackoff: every error is retried while retries remain
retryWithBackoffAnyError(c, isQuota) ==
    IF c.retries > 0 THEN RefineRateLimited(c) ELSE RefineFail(c, isQuota)

\* the catch block of retryWithBackoff for an attempt that failed
retryWithBackoff(c, isQuota) ==
    IF isQuota /\ c.retries > 0 THEN RefineRateLimited(c) ELSE RefineFail(c, isQuota)

\* a variant of Splice that always puts a space between the head and the refined text
SpliceAlwaysSpaced(prev, ref, resText) ==
    LET refined == trim(resText)
        head == Slice(prev, 0, ref)
    IN  head \o <<SP>> \o refined

\* the setText updater of the splice: head + separator + refined
Splice(prev, ref, resText) ==
    LET refined == trim(resText)
        head == Slice(prev, 0, ref)
        sep == IF endsWith(head, <<NL>>) \/ head = <<>> THEN <<>> ELSE <<SP>>
    IN  head \o sep \o refined

\* a variant of RefineSucceed that returns on an empty res.text before the flag is cleared
RefineSucceedReturnsEarly(c, resText) ==
    LET nt == IF resText # <<>> THEN Splice(text, refinedRef, resText) ELSE text
    IN  /\ c \in BagToSet(refineCalls)
        /\ Len(nt) <= MaxTextLen
        /\ text' = nt
        /\ refinedRef' = IF resText # <<>> THEN Len(nt) ELSE refinedRef
        /\ refineCalls' = refineCalls (-) SetToBag({c})
        /\ refiningInProgressRef' = (resText = <<>>)
        /\ UNCHANGED transVars
        /\ AutoTriggerEffect(nt, isBatchMode, refineTimeout, retryTimeout)
        /\ SilenceEffect(nt, interimText, status)
        /\ lateCommit' = <<>>
        /\ VelocityEffect(nt, status)
        /\ UNCHANGED <<recVars, interimText, velocityVars, uploads, vault, isBatchMode, issued>>

\* the remote call resolves with res.text = resText
RefineSucceed(c, resText) ==
    LET nt == IF resText # <<>> THEN Splice(text, refinedRef, resText) ELSE text
    IN  /\ c \in BagToSet(refineCalls)
        /\ Len(nt) <= MaxTextLen
        /\ text' = nt
        /\ refinedRef' = IF resText # <<>> THEN Len(nt) ELSE refinedRef
        /\ refineCalls' = refineCalls (-) SetToBag({c})
        /\ refiningInProgressRef' = FALSE
        /\ UNCHANGED transVars
        /\ AutoTriggerEffect(nt, isBatchMode, refineTimeout, retryTimeout)
        /\ SilenceEffect(nt, interimText, status)
        /\ lateCommit' = <<>>
        /\ VelocityEffect(nt, status)
        /\ UNCHANGED <<recVars, interimText, velocityVars, uploads, vault, isBatchMode, issued>>

----------------------------------------------------------------------------
(* Translation Stage *)

\* variant of BeginTranslate: every call consumes the slice up to the end of the buffer
BeginTranslateToEnd(isBatchRequest, endIdx) ==
    /\ translatingRef' = TRUE
    /\ transCalls' = transCalls (+) SetToBag({[batch |-> isBatchRequest,
                                               startIdx |-> processedRef,
                                               endIdx |-> Len(text),
                                               chunk |-> Slice(text, processedRef, Len(text)),
                                               stale |-> FALSE]})
    /\ sinceLastRequest' = 0

\* translatingRef.current = true, lastRequestTimeRef.current = Date.now(), remote call
BeginTranslate(isBatchRequest, endIdx) ==
    /\ translatingRef' = TRUE
    /\ transCalls' = transCalls (+) SetToBag({[batch |-> isBatchRequest,
                                               startIdx |-> processedRef,
                                               endIdx |-> endIdx,
                                               chunk |-> Slice(text, processedRef, endIdx),
                                               stale |-> FALSE]})
    /\ sinceLastRequest' = 0

\* variant of performTranslation: the elapsed time since the last request is not checked
performTranslationAtOnce(isBatchRequest, curRetry) ==
    LET endIdx == IF isBatchRequest THEN Len(text) ELSE refinedRef
        chunk == Slice(text, processedRef, endIdx)
    IN  IF (translatingRef /\ ~isBatchRequest) \/ Len(trim(chunk)) = 0
        THEN /\ retryTimeout' = curRetry
             /\ UNCHANGED <<translatingRef, transCalls, sinceLastRequest>>
        ELSE /\ retryTimeout' = curRetry
             /\ BeginTranslate(isBatchRequest, endIdx)

\* performTranslation(isBatchRequest) up to its await; curRetry is retryTimeoutRef
\* as the caller left it
performTranslation(isBatchRequest, curRetry) ==
    LET sourceText == text
        endIdx == IF isBatchRequest THEN Len(sourceText) ELSE refinedRef
        chunk == Slice(sourceText, processedRef, endIdx)
    IN  IF translatingRef /\ ~isBatchRequest
        THEN /\ retryTimeout' = curRetry
             /\ UNCHANGED <<translatingRef, transCalls, sinceLastRequest>>
        ELSE IF ~isBatchRequest /\ sinceLastRequest < minIntervalRef
        THEN /\ retryTimeout' = TRUE
             /\ UNCHANGED <<translatingRef, transCalls, sinceLastRequest>>
        ELSE IF Len(trim(chunk)) = 0
        THEN /\ retryTimeout' = curRetry
             /\ UNCHANGED <<translatingRef, transCalls, sinceLastRequest>>
        ELSE /\ retryTimeout' = curRetry
             /\ BeginTranslate(isBatchRequest, endIdx)

\* the debounce or reschedule timer held in retryTimeoutRef fires
TranslateTimerFires ==
    /\ retryTimeout
    /\ BagCardinality(transCalls) < MaxInFlight
    /\ performTranslation(FALSE, FALSE)
    /\ UNCHANGED <<recVars, text, interimText, silenceTimer, refineVars, processedRef,
                   translatedText, aiError, refineTimeout, velocityVars, otherVars, isBatchMode,
                   issued, lateCommit>>

\* Controls onOptimize: performTranslation(true)
onOptimize ==
    /\ BagCardinality(transCalls) < MaxInFlight
    /\ performTranslation(TRUE, retryTimeout)
    /\ UNCHANGED <<recVars, text, interimText, silenceTimer, refineVars, processedRef,
                   translatedText, aiError, refineTimeout, velocityVars, otherVars, isBatchMode,
                   issued, lateCommit>>

\* variant of AppendTranslation: the separator is written whatever the buffer holds
AppendTranslationAlwaysMarks(prev, val, isBatchRequest) ==
    LET p == trimEnd(prev)
        sep == IF isBatchRequest THEN BatchSeparator ELSE <<NL>>
    IN  p \o sep \o val

\* the setTranslatedText updater
AppendTranslation(prev, val, isBatchRequest) ==
    LET p == trimEnd(prev)
        sep == IF Len(p) > 0 /\ ~endsWith(p, <<NL>>)
               THEN (IF isBatchRequest THEN BatchSeparator ELSE <<NL>>)
               ELSE <<>>
    IN  p \o sep \o val

\* whether the response text is applied: if (res.text) { val = trim; if (val) ... }
Applies(resText) == resText # <<>> /\ trim(resText) # <<>>

\* variant of Advance: the watermark moves whatever the response holds
AdvanceAlways(c, resText) == c.endIdx

\* processedRef after a response
Advance(c, resText) == IF Applies(resText) THEN c.endIdx ELSE processedRef

\* variant of TranslateSucceed: the response replaces the translated buffer
TranslateSucceedOverwrites(c, resText) ==
    LET nv == IF Applies(resText)
              THEN trim(resText)
              ELSE translatedText
    IN  /\ c \in BagToSet(transCalls)
        /\ Len(nv) <= MaxTranslatedLen
        /\ translatedText' = nv
        /\ processedRef' = Advance(c, resText)
        /\ aiError' = IF Applies(resText) THEN FALSE ELSE aiError
        /\ translatingRef' = FALSE
        /\ transCalls' = transCalls (-) SetToBag({c})
        /\ issued' = IF Applies(resText) /\ ~c.stale
                      THEN [issued EXCEPT !.high = Max(@, c.endIdx)] ELSE issued
        /\ UNCHANGED <<recVars, text, interimText, silenceTimer, refineVars,
                       sinceLastRequest, timerVars, velocityVars, otherVars, isBatchMode,
                       lateCommit>>

\* the remote call resolves with res.text = resText
TranslateSucceed(c, resText) ==
    LET nv == IF Applies(resText)
              THEN AppendTranslation(translatedText, trim(resText), c.batch)
              ELSE translatedText
    IN  /\ c \in BagToSet(transCalls)
        /\ Len(nv) <= MaxTranslatedLen
        /\ translatedText' = nv
        /\ processedRef' = Advance(c, resText)
        /\ aiError' = IF Applies(resText) THEN FALSE ELSE aiError
        /\ translatingRef' = FALSE
        /\ transCalls' = transCalls (-) SetToBag({c})
        /\ issued' = IF Applies(resText) /\ ~c.stale
                      THEN [issued EXCEPT !.high = Max(@, c.endIdx)] ELSE issued
        /\ UNCHANGED <<recVars, text, interimText, silenceTimer, refineVars,
                       sinceLastRequest, timerVars, velocityVars, otherVars, isBatchMode,
                       lateCommit>>

\* variant of TranslateFail: the failed slice is given up, processedRef moves past it
TranslateFailSkips(c) ==
    /\ c \in BagToSet(transCalls)
    /\ aiError' = TRUE
    /\ translatingRef' = FALSE
    /\ processedRef' = c.endIdx
    /\ transCalls' = transCalls (-) SetToBag({c})
    /\ UNCHANGED <<recVars, text, interimText, silenceTimer, refineVars,
                   translatedText, sinceLastRequest, timerVars, velocityVars, otherVars,
                   isBatchMode, issued, lateCommit>>

\* the remote call throws: catch sets aiError, finally clears the flag
TranslateFail(c) ==
    /\ c \in BagToSet(transCalls)
    /\ aiError' = TRUE
    /\ translatingRef' = FALSE
    /\ transCalls' = transCalls (-) SetToBag({c})
    /\ UNCHANGED <<recVars, text, interimText, silenceTimer, refineVars, processedRef,
                   translatedText, sinceLastRequest, timerVars, velocityVars, otherVars,
                   isBatchMode, issued, lateCommit>>

\* time passes: Date.now() - lastRequestTimeRef.current grows
Tick ==
    /\ sinceLastRequest < minIntervalRef
    /\ sinceLastRequest' = Min(sinceLastRequest + TickMs, minIntervalRef)
    /\ UNCHANGED <<recVars, text, interimText, silenceTimer, refineVars, processedRef,
                   translatedText, translatingRef, transCalls, aiError, timerVars,
                   velocityVars, otherVars, isBatchMode, issued, lateCommit>>

----------------------------------------------------------------------------
(* Audio upload *)

\* handleAudioBatchUpload up to its awaits; the handler keeps the isBatchMode and the
\* performTranslation (with its text) of the render it was created in
handleAudioBatchUpload ==
    /\ BagCardinality(uploads) < MaxUploads
    /\ uploads' = uploads (+) SetToBag({[timer |-> FALSE, text |-> text,
                                         isBatchMode |-> isBatchMode]})
    /\ aiError' = FALSE
    /\ UNCHANGED <<recVars, text, interimText, silenceTimer, refineVars, processedRef,
                   translatedText, translatingRef, transCalls, sinceLastRequest,
                   timerVars, velocityVars, sampling, vault, isBatchMode, issued, lateCommit>>

\* the transcription resolves: setText(prev => prev + content) and, in batch mode,
\* setTimeout(() => performTranslation(true), 1000), held in no ref
UploadTranscribed(u, resText) ==
    LET nt == IF resText # <<>> THEN text \o AudioFilePrefix \o resText ELSE text
    IN  /\ u \in BagToSet(uploads)
        /\ ~u.timer
        /\ Len(nt) <= MaxTextLen
        /\ text' = nt
        /\ uploads' = (uploads (-) SetToBag({u}))
                       (+) (IF resText # <<>> /\ u.isBatchMode
                            THEN SetToBag({[u EXCEPT !.timer = TRUE]}) ELSE EmptyBag)
        /\ UNCHANGED <<refineVars, transVars>>
        /\ AutoTriggerEffect(nt, isBatchMode, refineTimeout, retryTimeout)
        /\ SilenceEffect(nt, interimText, status)
        /\ lateCommit' = <<>>
        /\ VelocityEffect(nt, status)
        /\ UNCHANGED <<recVars, interimText, velocityVars, vault, isBatchMode, issued>>

\* the transcription throws: setAiError("Audio file processing failed.")
UploadFails(u) ==
    /\ u \in BagToSet(uploads)
    /\ ~u.timer
    /\ uploads' = uploads (-) SetToBag({u})
    /\ aiError' = TRUE
    /\ UNCHANGED <<recVars, text, interimText, silenceTimer, refineVars, processedRef,
                   translatedText, translatingRef, transCalls, sinceLastRequest,
                   timerVars, velocityVars, sampling, vault, isBatchMode, issued, lateCommit>>

\* the 1000ms timer fires: performTranslation(true) of the render the upload began
\* in, whose sourceText is that render's text
UploadTimerFires(u) ==
    LET sourceText == u.text
        chunk == Slice(sourceText, processedRef, Len(sourceText))
    IN  /\ u \in BagToSet(uploads)
        /\ u.timer
        /\ BagCardinality(transCalls) < MaxInFlight
        /\ uploads' = uploads (-) SetToBag({u})
        /\ IF Len(trim(chunk)) = 0
           THEN UNCHANGED <<translatingRef, transCalls, sinceLastRequest>>
           ELSE /\ translatingRef' = TRUE
                /\ transCalls' = transCalls (+) SetToBag({[batch |-> TRUE,
                                                           startIdx |-> processedRef,
                                                           endIdx |-> Len(sourceText),
                                                           chunk |-> chunk,
                                                           stale |-> FALSE]})
                /\ sinceLastRequest' = 0
        /\ UNCHANGED <<recVars, text, interimText, silenceTimer, refineVars,
                       processedRef, translatedText, aiError, timerVars, velocityVars, sampling, vault,
                       isBatchMode, issued, lateCommit>>

----------------------------------------------------------------------------
(* User actions on the buffer *)

\* the batch-mode button: setIsBatchMode(!isBatchMode)
ToggleBatchMode ==
    /\ isBatchMode' = ~isBatchMode
    /\ UNCHANGED <<refineVars, transVars>>
    /\ AutoTriggerEffect(text, ~isBatchMode, refineTimeout, retryTimeout)
    /\ UNCHANGED <<recVars, text, interimText, silenceTimer, velocityVars, otherVars, issued,
                   lateCommit>>

\* values a user leaves in the source textarea
UserEdits(t) == { <<>>, trimEnd(t) \o <<SP, SP, SP>> }

\* TranscriptArea onChange = setText(e.target.value)
onChange(value) ==
    /\ value # text
    /\ Len(value) <= MaxTextLen
    /\ text' = value
    /\ UNCHANGED <<refineVars, transVars>>
    /\ AutoTriggerEffect(value, isBatchMode, refineTimeout, retryTimeout)
    /\ SilenceEffect(value, interimText, status)
    /\ lateCommit' = <<>>
    /\ VelocityEffect(value, status)
    /\ UNCHANGED <<recVars, interimText, velocityVars, uploads, vault, isBatchMode, issued>>

\* the translated TranscriptArea's onChange = setTranslatedText(e.target.value)
onChangeTranslated(value) ==
    /\ value # translatedText
    /\ Len(value) <= MaxTranslatedLen
    /\ translatedText' = value
    /\ UNCHANGED <<recVars, text, interimText, silenceTimer, refineVars, processedRef,
                   translatingRef, transCalls, sinceLastRequest, aiError, timerVars,
                   velocityVars, otherVars, isBatchMode, issued, lateCommit>>

\* history only: every call in flight predates the reset
MarkStale(B) ==
    LET S == {[d EXCEPT !.stale = TRUE] : d \in BagToSet(B)}
    IN  [c \in S |-> CopiesIn(c, B) + CopiesIn([c EXCEPT !.stale = FALSE], B)]

\* variant of onClear: only clearTranscript() runs, the watermarks are left alone
onClearBufferOnly ==
    /\ text' = <<>>
    /\ interimText' = <<>>
    /\ refineCalls' = MarkStale(refineCalls)
    /\ transCalls' = MarkStale(transCalls)
    /\ UNCHANGED <<refinedRef, processedRef, refiningInProgressRef, translatingRef>>
    /\ AutoTriggerEffect(<<>>, isBatchMode, refineTimeout, retryTimeout)
    /\ SilenceEffect(<<>>, <<>>, status)
    /\ lateCommit' = <<>>
    /\ issued' = [issued EXCEPT !.high = 0]
    /\ VelocityEffect(<<>>, status)
    /\ UNCHANGED <<recVars, translatedText, sinceLastRequest, aiError, velocityVars, uploads, vault,
                   isBatchMode>>

\* Controls onClear: clearTranscript(); refinedRef.current = 0; processedRef.current = 0
onClear ==
    /\ text' = <<>>
    /\ interimText' = <<>>
    /\ refinedRef' = 0
    /\ processedRef' = 0
    /\ refineCalls' = MarkStale(refineCalls)
    /\ transCalls' = MarkStale(transCalls)
    /\ UNCHANGED <<refiningInProgressRef, translatingRef>>
    /\ AutoTriggerEffect(<<>>, isBatchMode, refineTimeout, retryTimeout)
    /\ SilenceEffect(<<>>, <<>>, status)
    /\ lateCommit' = <<>>
    /\ issued' = [issued EXCEPT !.high = 0]
    /\ VelocityEffect(<<>>, status)
    /\ UNCHANGED <<recVars, translatedText, sinceLastRequest, aiError, velocityVars, uploads, vault,
                   isBatchMode>>

\* the SessionData that saveCurrentToStorage writes
SessionData ==
    [text |-> text, translatedText |-> translatedText, processedIndex |-> processedRef]

\* the stored data of the vault's session once handleSelectSession has saved the
\* active session
AfterSave == IF vault.active THEN <<SessionData>> ELSE vault.stored

\* saveCurrentToStorage for the vault's session (the 5s autosave timer)
saveCurrentToStorage ==
    /\ vault.active
    /\ vault' = [vault EXCEPT !.stored = <<SessionData>>]
    /\ UNCHANGED <<recVars, text, interimText, silenceTimer, refineVars, transVars,
                   timerVars, velocityVars, sampling, uploads, isBatchMode, issued,
                   lateCommit>>

\* createNewSession: handleSelectSession(id) for a fresh id, which has no stored data
createNewSession ==
    /\ vault' = [stored |-> AfterSave, active |-> FALSE]
    /\ text' = <<>>
    /\ translatedText' = <<>>
    /\ processedRef' = 0
    /\ refinedRef' = 0
    /\ refineCalls' = MarkStale(refineCalls)
    /\ transCalls' = MarkStale(transCalls)
    /\ UNCHANGED <<refiningInProgressRef, translatingRef>>
    /\ AutoTriggerEffect(<<>>, isBatchMode, refineTimeout, retryTimeout)
    /\ SilenceEffect(<<>>, interimText, status)
    /\ lateCommit' = <<>>
    /\ issued' = [issued EXCEPT !.high = 0]
    /\ VelocityEffect(<<>>, status)
    /\ UNCHANGED <<recVars, interimText, sinceLastRequest, aiError, velocityVars, uploads,
                   isBatchMode>>

\* handleSelectSession(id) for the vault's session: save the active session, then
\* read the stored data (data.text || '', data.processedIndex || 0)
handleSelectSession ==
    LET dataRaw == AfterSave
        nt == IF dataRaw # <<>> THEN dataRaw[1].text ELSE <<>>
    IN  /\ vault' = [stored |-> dataRaw, active |-> TRUE]
        /\ text' = nt
        /\ translatedText' = IF dataRaw # <<>> THEN dataRaw[1].translatedText ELSE <<>>
        /\ processedRef' = IF dataRaw # <<>> THEN dataRaw[1].processedIndex ELSE 0
        /\ refinedRef' = Len(nt)
        /\ refineCalls' = MarkStale(refineCalls)
        /\ transCalls' = MarkStale(transCalls)
        /\ UNCHANGED <<refiningInProgressRef, translatingRef>>
        /\ AutoTriggerEffect(nt, isBatchMode, refineTimeout, retryTimeout)
        /\ SilenceEffect(nt, interimText, status)
        /\ lateCommit' = <<>>
        /\ issued' = [issued EXCEPT !.high = processedRef']
        /\ VelocityEffect(nt, status)
        /\ UNCHANGED <<recVars, interimText, sinceLastRequest, aiError, velocityVars,
                       uploads, isBatchMode>>

----------------------------------------------------------------------------
(* The environment: the recognizer, the remote capabilities, the user *)

RecognitionErrors == \E error \in ErrorCodes : onerror(error)
RecognizeFinal == \E f \in FinalChunks : onresult(f, <<>>)
RecognizeInterim == \E i \in InterimChunks : onresult(<<>>, i)
RecognizeWord == onresult(Rep("a", WordLen), <<>>)
\* an event with interim results only
RecognizeFragment == \E i \in InterimFragments : onresult(<<>>, i)
\* an event with a final result followed by the beginning of the next utterance
RecognizeMixed ==
    \E f \in {Rep("a", WordLen), <<SP>>} : \E i \in InterimFragments : onresult(f, i)
\* a final chunk one character short of the slow refinement threshold
RecognizeNearThreshold == onresult(Rep("a", RefineThresholdSlow - 1), <<>>)
\* a chunk of the scenarios, delivered while the buffer is short
RecognizeScenario ==
    Len(text) <= HalfLen /\ \E f \in ScenarioChunks : onresult(f, <<>>)
\* a short final chunk delivered once the buffer is past the soft-break length
RecognizeShort == Len(text) > SOFT_BREAK_THRESHOLD /\ onresult(<<"o", "k">>, <<>>)

RefineRetries == \E c \in BagToSet(refineCalls) : RefineRateLimited(c)
RefineRejects == \E c \in BagToSet(refineCalls), q \in BOOLEAN : RefineFail(c, q)
\* an attempt of the text-correction call fails, with a 429 or with another error
RefineErrors == \E c \in BagToSet(refineCalls), q \in BOOLEAN : retryWithBackoff(c, q)
RefineResolves ==
    \E c \in BagToSet(refineCalls) : \E r \in RefineResponses(c.chunk) : RefineSucceed(c, r)

\* responses that are empty or carry words
RefineRewrites ==
    \E c \in BagToSet(refineCalls) :
        \E r \in {<<>>, <<"O", "k", ".">>, c.chunk \o <<".">>} : RefineSucceed(c, r)
RefinePunctuates ==
    \E c \in BagToSet(refineCalls) : RefineSucceed(c, c.chunk \o <<".">>)
\* the text-correction call answers with the punctuated chunk or with nothing
RefineAnswers ==
    \E c \in BagToSet(refineCalls) :
        \E r \in {<<>>, c.chunk \o <<".">>} : RefineSucceed(c, r)

TranslateResolves ==
    \E c \in BagToSet(transCalls) : \E r \in TranslateResponses : TranslateSucceed(c, r)
TranslateRejects == \E c \in BagToSet(transCalls) : TranslateFail(c)

UserTypes == \E v \in UserEdits(text) : onChange(v)

UserTypesTranslation == \E v \in UserEdits(translatedText) : onChangeTranslated(v)

UploadResolves ==
    \E u \in BagToSet(uploads) : \E r \in UploadResponses : UploadTranscribed(u, r)
UploadRejects == \E u \in BagToSet(uploads) : UploadFails(u)
UploadTimers == \E u \in BagToSet(uploads) : UploadTimerFires(u)

\* translation triggers of a run in which no translation call overlaps another
SerialTranslateTimerFires == transCalls = EmptyBag /\ TranslateTimerFires
SerialOptimize == transCalls = EmptyBag /\ onOptimize
\* the same two triggers while at most one translation call is in flight, so that a
\* batch request overlaps one other call
OverlapTranslateTimerFires == BagCardinality(transCalls) <= 1 /\ TranslateTimerFires
OverlapOptimize == BagCardinality(transCalls) <= 1 /\ onOptimize

----------------------------------------------------------------------------
(* Specifications *)

Next ==
    \/ startRecording \/ pauseRecording \/ stopRecording \/ onend \/ RecognitionErrors
    \/ RestartTimerFires
    \/ RecognizeFinal \/ RecognizeInterim \/ SilenceCommit \/ VelocitySample
    \/ IntervalTick
    \/ RefineTimerFires \/ RefineRetries \/ RefineRejects \/ RefineResolves
    \/ TranslateTimerFires \/ onOptimize \/ TranslateResolves \/ TranslateRejects
    \/ Tick \/ ToggleBatchMode \/ UserTypes \/ onClear \/ createNewSession
    \/ handleAudioBatchUpload \/ UploadResolves \/ UploadRejects \/ UploadTimers
    \/ saveCurrentToStorage \/ handleSelectSession \/ UserTypesTranslation

Spec == Init /\ [][Next]_vars

\* Stream Ingest on its own
IngestNext ==
    \/ startRecording \/ pauseRecording \/ stopRecording \/ onend \/ RecognitionErrors
    \/ RestartTimerFires
    \/ RecognizeFinal \/ RecognizeShort \/ RecognizeInterim \/ SilenceCommit \/ onClear

IngestSpec == Init /\ [][IngestNext]_vars

\* Ingest, the Refinement stage and the user's edits
RefineNext ==
    \/ startRecording \/ RecognizeFinal \/ SilenceCommit
    \/ RefineTimerFires \/ RefineRetries \/ RefineRejects \/ RefineResolves
    \/ ToggleBatchMode \/ UserTypes \/ onClear

RefineSpec == Init /\ [][RefineNext]_vars

\* the same operations with whole words as the recognizer's final chunks
FlightNext ==
    \/ startRecording \/ RecognizeWord \/ SilenceCommit
    \/ RefineTimerFires \/ RefineRetries \/ RefineRejects \/ RefineResolves
    \/ ToggleBatchMode \/ UserTypes \/ onClear

FlightSpec == Init /\ [][FlightNext]_vars

\* every writer of the source buffer: Ingest, the silence timer, the splice, the user
BufferNext ==
    \/ startRecording \/ RecognizeFinal \/ SilenceCommit
    \/ RefineTimerFires \/ RefineResolves \/ UserTypes

BufferSpec == Init /\ [][BufferNext]_vars

\* Ingest, Refinement and the Translation stage with incremental and batch calls
TranslateNext ==
    \/ startRecording \/ RecognizeWord
    \/ RefineTimerFires \/ RefinePunctuates
    \/ TranslateTimerFires \/ onOptimize \/ TranslateResolves \/ TranslateRejects
    \/ Tick

TranslateSpec == Init /\ [][TranslateNext]_vars

\* the pipeline without clears and edits, one translation call at a time
SerialNext ==
    \/ startRecording \/ RecognizeWord \/ SilenceCommit
    \/ RefineTimerFires \/ RefineRejects \/ RefineRewrites
    \/ SerialTranslateTimerFires \/ SerialOptimize
    \/ TranslateResolves \/ TranslateRejects \/ Tick

SerialSpec == Init /\ [][SerialNext]_vars

\* Ingest and the Refinement stage with a text-correction capability that fails
\* or answers with corrected text
RetryNext ==
    \/ startRecording \/ RecognizeFinal \/ SilenceCommit
    \/ RefineTimerFires \/ RefineErrors \/ RefinePunctuates

RetrySpec == Init /\ [][RetryNext]_vars

\* the pipeline with the Clear button and the switch to a new session
SessionNext ==
    \/ startRecording \/ RecognizeWord \/ RecognizeInterim
    \/ RefineTimerFires \/ RefinePunctuates
    \/ SerialTranslateTimerFires \/ TranslateResolves \/ Tick
    \/ onClear \/ createNewSession

SessionSpec == Init /\ [][SessionNext]_vars

\* the end-to-end scenarios: short chunks, silence, batch translation
ScenarioNext ==
    \/ startRecording \/ RecognizeScenario \/ RecognizeInterim \/ SilenceCommit
    \/ onOptimize \/ TranslateResolves

ScenarioSpec == Init /\ [][ScenarioNext]_vars

\* the recognizer's events and the recording controls
RecognizerNext ==
    \/ startRecording \/ pauseRecording \/ stopRecording \/ onend \/ RecognitionErrors
    \/ RestartTimerFires \/ RecognizeWord \/ RecognizeInterim

RecognizerSpec == Init /\ [][RecognizerNext]_vars

\* Ingest, the silence timer, the recording controls and the user's edits
SilenceNext ==
    \/ startRecording \/ pauseRecording \/ stopRecording
    \/ RecognizeFinal \/ RecognizeInterim \/ SilenceCommit \/ UserTypes \/ onClear

SilenceSpec == Init /\ [][SilenceNext]_vars

\* audio uploads, the batch-mode switch and the batch translations they start
UploadNext ==
    \/ ToggleBatchMode
    \/ handleAudioBatchUpload \/ UploadResolves \/ UploadRejects \/ UploadTimers
    \/ TranslateResolves

UploadSpec == Init /\ [][UploadNext]_vars

\* Ingest, batch translations, the user's edits and the session vault
StorageNext ==
    \/ startRecording \/ RecognizeWord \/ SerialOptimize \/ TranslateResolves \/ UserTypes
    \/ saveCurrentToStorage \/ handleSelectSession \/ createNewSession

StorageSpec == Init /\ [][StorageNext]_vars

\* the pipeline, the user's edits of the translated buffer and Clear
ArchiveNext ==
    \/ startRecording \/ RecognizeWord \/ RefineTimerFires \/ RefinePunctuates
    \/ SerialTranslateTimerFires \/ SerialOptimize \/ TranslateResolves \/ TranslateRejects
    \/ Tick \/ UserTypesTranslation \/ onClear

ArchiveSpec == Init /\ [][ArchiveNext]_vars

\* Ingest and the velocity tracker while time passes
VelocityNext ==
    \/ startRecording \/ pauseRecording \/ RecognizeWord \/ RecognizeInterim
    \/ SilenceCommit \/ IntervalTick \/ VelocitySample

VelocitySpec == Init /\ [][VelocityNext]_vars

\* Ingest, the velocity tracker and the refinement trigger
GateNext ==
    \/ startRecording \/ RecognizeWord \/ RecognizeNearThreshold \/ VelocitySample
    \/ IntervalTick
    \/ RefineTimerFires \/ RefinePunctuates \/ ToggleBatchMode

GateSpec == Init /\ [][GateNext]_vars

\* recognition events of every shape, while both stages move their watermarks
InterimNext ==
    \/ startRecording \/ stopRecording
    \/ RecognizeWord \/ RecognizeFragment \/ RecognizeMixed
    \/ RefineTimerFires \/ RefinePunctuates
    \/ SerialTranslateTimerFires \/ TranslateResolves

InterimSpec == Init /\ [][InterimNext]_vars

\* both stages with remote calls that answer, answer with nothing or fail, and
\* batch translations that overlap one other translation call
LockNext ==
    \/ startRecording \/ RecognizeWord
    \/ RefineTimerFires \/ RefineErrors \/ RefineAnswers
    \/ OverlapTranslateTimerFires \/ OverlapOptimize
    \/ TranslateResolves \/ TranslateRejects \/ Tick

\* every promise of a remote call settles: an attempt of the text-correction call
\* answers or fails (at most RetryCount retries follow a 429), and so does the
\* translation call
LockSpec ==
    /\ Init /\ [][LockNext]_vars
    /\ WF_vars(RefineErrors \/ RefineAnswers)
    /\ WF_vars(TranslateResolves \/ TranslateRejects)

----------------------------------------------------------------------------
(* Watermark properties *)

\* a batch translation call completes (response or failure)
BatchCompletes ==
    \E c \in BagToSet(transCalls) :
        c.batch /\ (TranslateFail(c) \/ \E r \in TranslateResponses : TranslateSucceed(c, r))

WatermarksInBuffer ==
    /\ 0 <= processedRef
    /\ 0 <= refinedRef
    /\ refinedRef <= Len(text)

----------------------------------------------------------------------------
(* Refinement properties *)

\* C2: if Ingest commits a final chunk while a refinement call is in flight, the
\* text of that chunk is still in the buffer after the result is spliced in.
C2_LateCommitSurvives ==
    [][\A c \in BagToSet(refineCalls) : \A r \in RefineResponses(c.chunk) :
          (lateCommit # <<>> /\ RefineSucceed(c, r)) => includes(text', lateCommit)]_vars

\* C3: at most one refinement call is in flight at any time, and while a call is
\* unresolved the flag is raised and no refinement trigger is pending, so a
\* buffer change during the call issues no second remote call.
C3_SingleFlight ==
    /\ BagCardinality(refineCalls) <= 1
    /\ refineCalls # EmptyBag => refiningInProgressRef /\ ~refineTimeout

\* a call is unresolved, Ingest has committed since it began, and the buffer holds
\* more than the trigger's 20 pending characters
C3_Witness ==
    /\ BagCardinality(refineCalls) = 1
    /\ lateCommit # <<>>
    /\ Len(text) > refinedRef + RefineTriggerPending
    /\ ~isBatchMode

\* C7: refinedRef is changed only by a successful refinement splice and never
\* decreases, except that it is reset to 0 on buffer clear (user edits included).
C7_RefinedMonotone ==
    [][/\ refinedRef' # refinedRef => (RefineResolves \/ onClear)
       /\ refinedRef' >= refinedRef \/ onClear]_vars

----------------------------------------------------------------------------
(* Buffer length properties *)

\* s.trimEnd().length
TrimmedLen(s) == LastNonSpace(s, Len(s))

\* the buffer is empty, or holds text followed by at most two whitespace characters
Settled(s) == s = <<>> \/ (TrimmedLen(s) > 0 /\ Len(s) - TrimmedLen(s) <= 2)

\* C8: for every sequence of final chunks fed to Ingest with no intervening clear,
\* the buffer after each commit is at least as long as before it.
C8_IngestGrows ==
    [][(RecognizeFinal \/ RecognizeShort) => Len(text') >= Len(text)]_vars

\* Ingest has committed a sentence on a new line after a soft break
C8_Witness ==
    /\ Len(text) > SOFT_BREAK_THRESHOLD
    /\ includes(text, <<"?", NL, "O", "k">>)

\* C9 as stated: ingest commits, silence commits and refinement splices each
\* leave len(text) greater than or equal to its previous value.
C9_AsStated ==
    [][(RecognizeFinal \/ SilenceCommit \/ RefineResolves) => Len(text') >= Len(text)]_vars

\* C9 amended: ingest commits and silence commits never shorten the buffer's
\* text without its trailing whitespace (its trimEnd), and never shorten the buffer itself when
\* it is empty or ends in at most two whitespace characters after text; a
\* refinement splice replaces everything from refinedRef on and may shorten it.
\* (stated as: a step that shortens it is neither an ingest nor a silence commit)
C9_CommitsGrow ==
    [][(\/ TrimmedLen(text') < TrimmedLen(text)
        \/ Len(text') < Len(text) /\ Settled(text))
          => ~(RecognizeFinal \/ SilenceCommit)]_vars

\* a silence commit has closed a paragraph that Ingest committed after a splice
C9_Witness ==
    /\ refinedRef > 0
    /\ Len(text) > refinedRef + HalfLen
    /\ endsWith(text, <<NL, NL>>)

----------------------------------------------------------------------------
(* Translation properties *)

\* number of incremental translation calls awaiting their response
IncrementalInFlight ==
    BagCardinality([c \in InFlightIncremental(transCalls) |-> CopiesIn(c, transCalls)])

\* C4: at most one incremental translation call is in flight at any time, also
\* when a batch call starts and completes while an incremental call is unresolved.
C4_SingleIncremental == IncrementalInFlight <= 1

\* a call begun before the last clear or session switch resolves
StaleResolves ==
    \/ \E c \in BagToSet(refineCalls) :
          c.stale /\ (RefineFail(c, FALSE)
                      \/ \E r \in RefineResponses(c.chunk) : RefineSucceed(c, r))
    \/ \E c \in BagToSet(transCalls) :
          c.stale /\ (TranslateFail(c)
                      \/ \E r \in TranslateResponses : TranslateSucceed(c, r))

\* C5: a call in flight when the session is cleared or switched has its result
\* discarded: text, translatedText, refinedRef and processedRef stay as they were.
C5_StaleDiscarded ==
    [][StaleResolves =>
          UNCHANGED <<text, translatedText, refinedRef, processedRef>>]_vars

\* C6: processedRef never decreases between two consecutive clears or session
\* switches.
C6_ProcessedMonotone ==
    [][processedRef' >= processedRef \/ onClear \/ createNewSession]_vars

\* C10: a translation response that is empty or whitespace-only leaves
\* processedRef and translatedText unchanged, and processedRef changes only
\* when a non-empty response is received (or the session is cleared or switched).
C10_BlankIgnored ==
    [][/\ (processedRef' # processedRef \/ translatedText' # translatedText) =>
             ~\E c \in BagToSet(transCalls) : \E r \in TranslateResponses :
                   ~Applies(r) /\ TranslateSucceed(c, r)
       /\ processedRef' # processedRef =>
             \/ \E c \in BagToSet(transCalls) : \E r \in TranslateResponses :
                   Applies(r) /\ TranslateSucceed(c, r)
             \/ onClear
             \/ createNewSession]_vars

\* a translation consumed part of the buffer and the next call, which would move
\* processedRef, has not resolved
C10_Witness ==
    /\ processedRef > 0
    /\ translatedText # <<>>
    /\ \E c \in BagToSet(transCalls) : ~c.stale /\ c.endIdx > processedRef

----------------------------------------------------------------------------
(* Failure properties *)

\* the translation calls a step begins
BegunTranslations ==
    {d \in BagToSet(transCalls') :
        ~d.stale /\ CopiesIn(d, transCalls') > CopiesIn(d, transCalls)}

\* C11: when a translation call fails, aiError is set, processedRef and
\* translatedText are unchanged, and the failed slice is submitted again by the
\* next trigger: processedRef still stands at the start of the failed slice, the
\* text of a failed incremental slice is the beginning of the slice pending after
\* the failure, and every call a trigger begins submits the pending slice from
\* processedRef.
C11_FailureKeepsSlice ==
    [][/\ \A c \in BagToSet(transCalls) : TranslateFail(c) =>
             /\ aiError'
             /\ processedRef' = processedRef
             /\ translatedText' = translatedText
             /\ processedRef' = c.startIdx
             /\ ~c.batch => IsPrefix(c.chunk, Slice(text', processedRef', refinedRef'))
       /\ \A d \in BegunTranslations :
             /\ d.startIdx = processedRef
             /\ d.endIdx = IF d.batch THEN Len(text) ELSE refinedRef
             /\ d.chunk = Slice(text, processedRef, d.endIdx)]_vars

\* a translation call failed after an earlier one succeeded, and the next trigger
\* has submitted the slice from the unmoved processedRef again
C11_Witness ==
    /\ aiError
    /\ processedRef > 0
    /\ \E c \in BagToSet(transCalls) :
          ~c.batch /\ c.startIdx = processedRef /\ c.chunk # <<>>

\* the refinement calls a step begins
BegunRefinements ==
    {d \in BagToSet(refineCalls') :
        /\ ~d.stale
        /\ d.retries = RetryCount
        /\ CopiesIn(d, refineCalls') > CopiesIn(d, refineCalls)}

\* C12: when a refinement call fails (after any retries), refinedRef and the
\* buffer are unchanged, aiError is not set, and the unrefined tail is submitted
\* again by the next trigger: the chunk that failed is the beginning of the
\* unrefined tail left after the failure, and every call a trigger begins
\* submits the whole unrefined tail from refinedRef.
C12_FailureKeepsTail ==
    [][/\ \A c \in BagToSet(refineCalls) : \A q \in BOOLEAN : RefineFail(c, q) =>
             /\ refinedRef' = refinedRef
             /\ text' = text
             /\ ~aiError'
             /\ IsPrefix(c.chunk, trim(Slice(text', refinedRef', Len(text'))))
       /\ \A d \in BegunRefinements :
             d.chunk = trim(Slice(text, refinedRef, Len(text)))]_vars

\* the first call threw with no retries left, nothing was spliced, and the next
\* trigger has submitted the tail again
C12_Witness ==
    /\ issued.refine = 2
    /\ ~issued.early
    /\ refinedRef = 0
    /\ \E d \in BagToSet(refineCalls) :
          d.retries = RetryCount /\ IsPrefix(Rep("A", 1) \o Rep("a", WordLen - 1), d.chunk)

----------------------------------------------------------------------------
(* Retry wrapper properties *)

\* the number of times retryWithBackoff has invoked the remote function when its
\* delay parameter is d: the delay starts at RetryBaseDelay and doubles per retry
RECURSIVE InvocationsAt(_)
InvocationsAt(d) == IF d <= RetryBaseDelay THEN 1 ELSE 1 + InvocationsAt(d \div 2)

\* C13 as stated: a remote function that keeps failing with a 429 is invoked at
\* most 3 times in total.
C13_AsStated ==
    \A c \in BagToSet(refineCalls) : InvocationsAt(c.delay) <= 3

\* C13 amended: a remote function that keeps failing with a 429 is invoked at
\* most 4 times in total (the first attempt and 3 retries); the wrapper waits
\* 1000ms before the second attempt and twice the previous wait before each
\* later one, and propagates the 429 only when the fourth attempt has failed.
C13_FourAttempts ==
    /\ \A c \in BagToSet(refineCalls) : InvocationsAt(c.delay) <= 4
    /\ [][/\ \A d \in BagToSet(refineCalls') : InvocationsAt(d.delay) <= 4
          /\ \A c \in BagToSet(refineCalls) :
             /\ RefineRateLimited(c) =>
                   /\ InvocationsAt(c.delay) = 1 => c.delay = 1000
                   /\ \E d \in BagToSet(refineCalls') :
                         /\ d.delay = 2 * c.delay
                         /\ InvocationsAt(d.delay) = InvocationsAt(c.delay) + 1
             /\ RefineFail(c, TRUE) => InvocationsAt(c.delay) = 4]_vars

\* the fourth attempt is in flight after waits of 1000ms, 2000ms and 4000ms
C13_Witness ==
    \E c \in BagToSet(refineCalls) : c.retries = 0 /\ c.delay = 8 * RetryBaseDelay

\* C14: an attempt that fails with an error that is not a 429 ends the call at
\* once, whatever the number of retries left: the call is not retried, the
\* error reaches refineEnglishTranscript, whose finally block clears the flag.
C14_OtherErrorsPropagate ==
    [][\A c \in BagToSet(refineCalls) : retryWithBackoff(c, FALSE) =>
          /\ refineCalls' = refineCalls (-) SetToBag({c})
          /\ ~refiningInProgressRef'
          /\ issued'.early = (c.retries > 0)]_vars

\* the only call so far threw while retries were left, and no call is in flight
C14_Witness ==
    /\ issued.refine = 1
    /\ issued.early
    /\ refineCalls = EmptyBag
    /\ ~refiningInProgressRef
    /\ refinedRef = 0

----------------------------------------------------------------------------
(* Refinement gating *)

----------------------------------------------------------------------------
(* Translation ranges *)

\* C16: between two clears the index ranges consumed by translation calls that
\* succeeded are pairwise disjoint.  Every range starts at a value processedRef
\* held, so the ranges consumed so far cover 0..issued.high without a gap, and a
\* further range is disjoint from them exactly when it starts at issued.high.
C16_RangesDisjoint ==
    [][\A c \in BagToSet(transCalls) : \A r \in TranslateResponses :
          (~c.stale /\ Applies(r) /\ TranslateSucceed(c, r)) =>
              c.startIdx >= issued.high]_vars

----------------------------------------------------------------------------
(* Session reset *)

\* C17: after an explicit clear the buffer and the interim fragment are empty
\* and refinedRef and processedRef are 0, whatever the state before the clear.
C17_ClearResets ==
    [][onClear =>
          /\ text' = <<>>
          /\ interimText' = <<>>
          /\ refinedRef' = 0
          /\ processedRef' = 0]_vars

\* the buffer was refined and translated and then cleared: the translation is
\* still shown, the buffer is empty and both watermarks are back at 0
C17_Witness ==
    /\ translatedText # <<>>
    /\ text = <<>>
    /\ interimText = <<>>
    /\ refinedRef = 0
    /\ processedRef = 0
    /\ issued.refine > 0
    /\ transCalls = EmptyBag

----------------------------------------------------------------------------
(* End-to-end scenarios *)

HelloWorldBuffer ==
    <<"H", "e", "l", "l", "o", " ", "w", "o", "r", "l", "d">>
TwoChunksBuffer ==
    <<"H", "e", "l", "l", "o", " ", "w", "o", "r", "l", "d", " ", "T", "h",
      "i", "s", " ", "i", "s", " ", "a", " ", "t", "e", "s", "t", ".">>
SilenceBuffer ==
    <<"H", "e", "l", "l", "o", " ", "w", "o", "r", "l", "d", " ", "T", "h",
      "i", "s", " ", "i", "s", " ", "a", " ", "t", "e", "s", "t", ".",
      "\n", "\n">>
SilenceBufferAsStated ==
    <<"H", "e", "l", "l", "o", " ", "w", "o", "r", "l", "d", " ", "t", "h",
      "i", "s", " ", "i", "s", " ", "a", " ", "t", "e", "s", "t", ".",
      "\n", "\n">>
HelloDotWorldBuffer ==
    <<"H", "e", "l", "l", "o", ".", " ", "W", "o", "r", "l", "d", ".">>

\* C18 as stated: from an empty buffer while recording, the final chunks
\* "hello world" and "this is a test." and then a silence of more than 1200ms
\* with no interim fragment leave the buffer "Hello world this is a test.\n\n".
C18_AsStated ==
    [][(/\ text = Ingest(Ingest(<<>>, HelloWorld), ThisIsATest)
        /\ interimText = <<>>
        /\ SilenceCommit) => text' = SilenceBufferAsStated]_vars

\* C18 amended: the same inputs leave the buffer
\* "Hello world This is a test.\n\n": the second chunk is a unit of its own and
\* its first character is capitalized like that of the first.
C18_Scenario ==
    [][/\ (text = <<>> /\ onresult(HelloWorld, <<>>)) => text' = HelloWorldBuffer
       /\ (text = HelloWorldBuffer /\ onresult(ThisIsATest, <<>>)) =>
             text' = TwoChunksBuffer
       /\ (text = TwoChunksBuffer /\ interimText = <<>> /\ SilenceCommit) =>
             text' = SilenceBuffer]_vars

\* the scenario has run to its end while recording
C18_Witness ==
    /\ status = "RECORDING"
    /\ interimText = <<>>
    /\ text = SilenceBuffer

\* a batch translation call resolves with a response that is applied
BatchSucceeds(c, r) == c.batch /\ Applies(r) /\ TranslateSucceed(c, r)

\* C19 as stated: a batch translation that succeeds with a non-empty response
\* sets processedRef to the length the buffer had at call start and leaves
\* translatedText containing the batch separator marker.
C19_AsStated ==
    [][\A c \in BagToSet(transCalls) : \A r \in TranslateResponses :
          BatchSucceeds(c, r) =>
              /\ processedRef' = c.endIdx
              /\ includes(translatedText', BatchSeparator)]_vars

\* C19 amended: a batch call captures the full length of the buffer at call
\* start whatever refinedRef is, and its success with a non-empty response sets
\* processedRef to that length; the response is appended after the batch
\* separator marker when translatedText already holds text, and without any
\* marker when translatedText is empty or blank.
C19_BatchAdvances ==
    [][/\ \A d \in BegunTranslations : d.batch => d.endIdx = Len(text)
       /\ \A c \in BagToSet(transCalls) : \A r \in TranslateResponses :
             BatchSucceeds(c, r) =>
                 /\ processedRef' = c.endIdx
                 /\ trimEnd(translatedText) # <<>> =>
                       translatedText' = trimEnd(translatedText) \o BatchSeparator \o trim(r)
                 /\ trimEnd(translatedText) = <<>> =>
                       /\ translatedText' = trim(r)
                       /\ ~includes(translatedText', BatchSeparator)]_vars

\* "Hello. World." was translated in one batch from processedRef = 0 into an
\* empty translatedText: processedRef is 13, refinedRef is still 0 and no
\* marker was written
C19_Witness ==
    /\ text = HelloDotWorldBuffer
    /\ processedRef = Len(HelloDotWorldBuffer)
    /\ refinedRef = 0
    /\ translatedText = Rep("x", OutLen)
    /\ transCalls = EmptyBag

----------------------------------------------------------------------------
(* Separator rule *)

\* the separator C20 names for a buffer: none for an empty buffer, a newline
\* when the buffer's last line (the text since its last newline) ends in '.',
\* '!' or '?' and is longer than 80 characters or is longer than 160
\* characters, and a single space otherwise
ClaimedSeparator(buffer) ==
    LET line == SubSeq(buffer, LastNewline(buffer, Len(buffer)) + 1, Len(buffer))
    IN  IF buffer = <<>> THEN <<>>
        ELSE IF \/ line # <<>> /\ line[Len(line)] \in {".", "!", "?"} /\ Len(line) > 80
                \/ Len(line) > 160
        THEN <<NL>>
        ELSE <<SP>>

\* C20: when Ingest appends a unit to the buffer, the unit follows the separator
\* the rule gives for the buffer's last line (appended to the buffer as it is
\* or to the buffer without its trailing whitespace).
C20_SeparatorRule ==
    [][RecognizeShort =>
          \/ text' = text \o ClaimedSeparator(text) \o <<"O", "k">>
          \/ text' = trimEnd(text) \o ClaimedSeparator(text) \o <<"O", "k">>]_vars

----------------------------------------------------------------------------
(* Silence commit *)

\* s ends with terminal punctuation followed by a blank line
EndsCommitted(s) ==
    /\ Len(s) >= 3
    /\ s[Len(s) - 2] \in Terminators
    /\ s[Len(s) - 1] = NL
    /\ s[Len(s)] = NL

\* C21 as stated: the silence commit fires only while RECORDING with no interim
\* fragment, and when it fires on a non-empty buffer the buffer afterwards ends
\* with terminal punctuation followed by a blank line.
C21_AsStated ==
    [][SilenceCommit =>
          /\ status = "RECORDING" /\ interimText = <<>>
          /\ text # <<>> => EndsCommitted(text')
          /\ text = <<>> => text' = text]_vars

\* C21 amended: the silence timer is pending only while RECORDING with no interim
\* fragment; when it fires on a buffer that holds more than whitespace the buffer
\* becomes its trimmed text, a period if that text lacked terminal punctuation,
\* and a blank line; a buffer that is empty or holds only whitespace is unchanged.
C21_SilenceCommit ==
    [][/\ silenceTimer' => (status' = "RECORDING" /\ interimText' = <<>>)
       /\ SilenceCommit =>
             LET trimmed == trimEnd(text)
             IN  /\ status = "RECORDING" /\ interimText = <<>>
                 /\ trimmed = <<>> => text' = text
                 /\ trimmed # <<>> =>
                       /\ EndsCommitted(text')
                       /\ text' = trimmed
                                  \o (IF trimmed[Len(trimmed)] \in Terminators
                                      THEN <<>> ELSE <<".">>)
                                  \o <<NL, NL>>]_vars

\* a silence commit has closed a tail that lacked punctuation and the timer has
\* fired once more without a change
C21_Witness ==
    /\ status = "RECORDING"
    /\ ~silenceTimer
    /\ interimText = <<>>
    /\ endsWith(text, <<"a", ".", NL, NL>>)

----------------------------------------------------------------------------
(* Recognizer restarts *)

\* C22: while RECORDING, after 3 consecutive automatic restarts of the recognizer
\* with no recognition result or user start in between, no further automatic
\* restart happens: the restarts since the last result or user start number at most 3.
C22_RestartsBounded == issued.restarts <= MaxRestarts

\* C23: a recognition error with code 'not-allowed' never causes an automatic
\* restart: its handler schedules no restart timer and leaves the restart counter alone.
C23_DeniedNoRestart ==
    [][onerror("not-allowed") =>
          (restartTimers' = restartTimers /\ restartCount' = restartCount)]_vars

\* C24: after stopRecording the recognizer, once it has ended, is not started again
\* until the user invokes startRecording.
C24_StopIsFinal ==
    [][(status = "STOPPED" /\ ~listening /\ listening') => startRecording]_vars

----------------------------------------------------------------------------
(* Minimum interval between translation requests *)

----------------------------------------------------------------------------
(* Timers *)

\* timers pending that will invoke performTranslation
TranslationTimers ==
    (IF retryTimeout THEN 1 ELSE 0)
    + BagCardinality([u \in {v \in BagToSet(uploads) : v.timer} |-> CopiesIn(u, uploads)])

----------------------------------------------------------------------------
(* Velocity samples *)

\* C27: while RECORDING a velocity sample is taken every second however often the
\* buffer changes in between: no more than the sampling interval passes between
\* the start of recording and the first sample, or between one sample and the next.
C27_SampledEverySecond == status = "RECORDING" => sampling.gap <= SampleInterval

----------------------------------------------------------------------------
(* Session snapshots *)

\* C28: loading the snapshot that was saved restores the source buffer, the
\* translated buffer and the persisted watermark index to their saved values, and
\* the state after the load satisfies 0 <= processedRef <= refinedRef <= len(text).
C28_RoundTrip ==
    [][(handleSelectSession /\ vault'.stored # <<>>) =>
          /\ text' = vault'.stored[1].text
          /\ translatedText' = vault'.stored[1].translatedText
          /\ processedRef' = vault'.stored[1].processedIndex
          /\ 0 <= processedRef'
          /\ processedRef' <= refinedRef'
          /\ refinedRef' <= Len(text')]_vars

----------------------------------------------------------------------------
(* Translated buffer *)

\* a step that is a user edit of the translated buffer or a session switch
EditOrSwitch == UserTypesTranslation \/ createNewSession \/ handleSelectSession

\* C29 as stated: every step other than a user edit or a session switch leaves the
\* previous translated buffer as a prefix of the new one.
C29_AsStated ==
    [][~EditOrSwitch => IsPrefix(translatedText, translatedText')]_vars

\* C29 amended: every step other than a user edit or a session switch leaves the
\* previous translated buffer without its trailing whitespace as a prefix of the new
\* one, changes the buffer only by a translation that succeeds with text, and then
\* appends the separator (if any) and the trimmed response to it.
C29_AppendOnly ==
    [][~EditOrSwitch =>
          /\ IsPrefix(trimEnd(translatedText), translatedText')
          /\ translatedText' # translatedText =>
                \E c \in BagToSet(transCalls) : \E r \in TranslateResponses :
                    /\ Applies(r)
                    /\ TranslateSucceed(c, r)
                    /\ \E sep \in {<<>>, <<NL>>, BatchSeparator} :
                          translatedText' = trimEnd(translatedText) \o sep \o trim(r)]_vars

\* a second segment has been appended after the first with the incremental separator
C29_Witness ==
    /\ translatedText = Rep("x", OutLen) \o <<NL>> \o Rep("x", OutLen)
    /\ processedRef > WordLen
    /\ transCalls = EmptyBag

----------------------------------------------------------------------------
(* Pause boundaries *)

\* C30: the blank line a silence commit wrote persists: a later final chunk commit
\* keeps the buffer up to and including the blank line and puts the new text
\* after it.
C30_BoundaryPersists ==
    [][(EndsCommitted(text) /\ (RecognizeFinal \/ RecognizeShort) /\ text' # text)
          => IsPrefix(text, text')]_vars

----------------------------------------------------------------------------
(* Interim fragment *)

\* the final and interim transcripts a recognition event can carry
EventFinals == {<<>>, <<SP>>, Rep("a", WordLen)}

\* C31: a recognition event with no finalized chunk replaces the interim
\* fragment by the event's interim transcript and leaves the source buffer,
\* refinedRef and processedRef unchanged; a recognition event that carries a
\* finalized chunk leaves the interim fragment empty.
C31_InterimFrame ==
    [][\A f \in EventFinals, i \in InterimFragments :
           onresult(f, i) =>
               IF f = <<>>
               THEN /\ interimText' = i
                    /\ text' = text
                    /\ refinedRef' = refinedRef
                    /\ processedRef' = processedRef
               ELSE interimText' = <<>>]_vars

\* a fragment is on display past both watermarks, which the stages have moved
C31_Witness ==
    /\ interimText = <<"h", "i", SP, "y", "o">>
    /\ 0 < processedRef
    /\ processedRef <= refinedRef
    /\ refinedRef < Len(text)

----------------------------------------------------------------------------
(* Refinement splice *)

\* C32: a successful refinement splice leaves the characters of the source
\* buffer before refinedRef unchanged, replaces everything from refinedRef
\* onward by the separator and the corrected text (no separator when the
\* prefix is empty or ends in a newline, otherwise one space), and sets
\* refinedRef to the length of the new buffer.
C32_SpliceFrame ==
    [][\A c \in BagToSet(refineCalls) :
           \A r \in RefineResponses(c.chunk) \ {<<>>} :
               RefineSucceed(c, r) =>
                   LET k == Min(refinedRef, Len(text))
                       sep == IF k = 0 \/ text[k] = NL THEN <<>> ELSE <<SP>>
                   IN  /\ Len(text') >= k
                       /\ \A n \in 1..k : text'[n] = text[n]
                       /\ SubSeq(text', k + 1, Len(text')) = sep \o trim(r)
                       /\ refinedRef' = Len(text')]_vars

\* the second splice has put one space between the refined prefix and "Ok."
C32_Witness ==
    /\ refinedRef = Len(text)
    /\ refinedRef > Len(<<".", SP, "O", "k", ".">>)
    /\ endsWith(text, <<".", SP, "O", "k", ".">>)

----------------------------------------------------------------------------
(* In-flight flags *)

\* the text-correction call resolves: with text, with an empty result or by failing
RefinementResolves ==
    \E c \in BagToSet(refineCalls) :
        \/ \E q \in BOOLEAN : RefineFail(c, q)
        \/ \E r \in {<<>>, c.chunk \o <<".">>} : RefineSucceed(c, r)

\* the translation call resolves: with text, with an empty result or by failing
TranslationResolves ==
    \E c \in BagToSet(transCalls) :
        \/ TranslateFail(c)
        \/ \E r \in TranslateResponses : TranslateSucceed(c, r)

\* the gates of refineEnglishTranscript
RefineGatesHold ==
    /\ ~refiningInProgressRef
    /\ Len(trim(Slice(text, refinedRef, Len(text)))) >= minThreshold

\* the gates of performTranslation() for an incremental request
TranslateGatesHold ==
    /\ ~translatingRef
    /\ sinceLastRequest >= minIntervalRef
    /\ Len(trim(Slice(text, processedRef, refinedRef))) > 0

\* C33: no stage is ever permanently locked. Whenever a refinement or a
\* translation call resolves (with text, with an empty result or by failing)
\* the stage's in-flight flag is cleared, a flag is set only while a call of
\* its stage is in flight, a trigger whose gate conditions hold starts a new
\* call, and, every call resolving, a flag that is set is cleared later.
C33_NeverLocked ==
    /\ [][/\ RefinementResolves => ~refiningInProgressRef'
          /\ TranslationResolves => ~translatingRef'
          /\ refiningInProgressRef' => refineCalls' # EmptyBag
          /\ translatingRef' => transCalls' # EmptyBag
          /\ RefineTimerFires /\ RefineGatesHold =>
                 /\ refiningInProgressRef'
                 /\ BagCardinality(refineCalls') = BagCardinality(refineCalls) + 1
          /\ TranslateTimerFires /\ TranslateGatesHold =>
                 /\ translatingRef'
                 /\ BagCardinality(transCalls') = BagCardinality(transCalls) + 1]_vars
    /\ refiningInProgressRef ~> ~refiningInProgressRef
    /\ translatingRef ~> ~translatingRef

\* a second refinement call is in flight after the first resolved without moving
\* refinedRef, and a translation call is in flight after an earlier one failed
C33_Witness ==
    /\ issued.refine = 2
    /\ refiningInProgressRef
    /\ refinedRef = 0
    /\ aiError
    /\ translatingRef
    /\ BagCardinality(transCalls) = 1
====
